---- MODULE Spec2Model ----
(***************************************************************************)
(* Dataset distribution utilities: scripts/utils/CsvDatasetDistribution.py *)
(* and scripts/utils/JsonDatasetDistribution.py.                           *)
(*                                                                         *)
(* Each script loads a source, counts the values of one field, writes a    *)
(* three column summary table (value, count, percent) into an output       *)
(* directory and renders a bar chart and a pie chart from that table.      *)
(*                                                                         *)
(* Representation                                                          *)
(*   - a file name is the sequence of its dot separated parts:             *)
(*     "dist.pie.png" is <<"dist", "pie", "png">>; the absent optional     *)
(*     name (Python None) is <<>>;                                         *)
(*   - a Python value is a record [t, n, s]: its type, its number, its     *)
(*     text;                                                               *)
(*   - a percent is kept as the integer number of thousandths its          *)
(*     three-decimal text denotes: "33.333" is 33333;                      *)
(*   - the output directory is one directory; files maps the names in it   *)
(*     to their contents.                                                  *)
(***************************************************************************)
EXTENDS Integers, Sequences, FiniteSets, TLC

VARIABLES
    source,     \* the input file the run reads
    dirExists,  \* whether out_dir exists
    files,      \* out_dir: file name -> content
    pc,         \* position inside compute_and_plot_distribution
    cur,        \* locals of the compute_and_plot_distribution call in progress
    last        \* outcome of the last call that returned or raised

vars == <<source, dirExists, files, pc, cur, last>>

----------------------------------------------------------------------------
(* Bounds of the model *)

\* longest JSON source built from strings, nulls, absent keys and non-maps
MaxLen == 4
\* longest source built from every kind of value
MaxRichLen == 3
\* longest source of the many-distinct-values family
MaxDistinct == 12
\* longest source the pipeline specification reads
MaxPipeLen == 2
\* largest integer literal a CSV cell holds
MaxInt == 13
\* longest table plot_distribution is given
MaxPlotRows == 2

----------------------------------------------------------------------------
(* Python values *)

PyNone == [t |-> "none", n |-> 0, s |-> ""]
PyNaN == [t |-> "nan", n |-> 0, s |-> ""]
PyStr(s) == [t |-> "str", n |-> 0, s |-> s]
PyInt(n) == [t |-> "int", n |-> n, s |-> ""]
PyFloat(n) == [t |-> "float", n |-> n, s |-> ""]
PyTrue == [t |-> "bool", n |-> 1, s |-> ""]
PyList == [t |-> "list", n |-> 0, s |-> ""]

IsNumber(v) == v.t \in {"int", "float", "bool"}

\* hash and == of the built-in types: True == 1 == 1.0, everything else by value
PyEq(a, b) == IF IsNumber(a) /\ IsNumber(b) THEN a.n = b.n ELSE a = b

Hashable(v) == v.t # "list"

Digit(d) == <<"0", "1", "2", "3", "4", "5", "6", "7", "8", "9">>[d + 1]

RECURSIVE ToStr(_)
ToStr(n) == IF n < 10 THEN Digit(n) ELSE ToStr(n \div 10) \o Digit(n % 10)

\* what csv.writer puts in a cell: "" for None, str() of anything else
CsvText(v) ==
    CASE v.t = "none" -> ""
      [] v.t = "str" -> v.s
      [] v.t = "int" -> ToStr(v.n)
      [] v.t = "float" -> ToStr(v.n) \o ".0"
      [] v.t = "bool" -> "True"
      [] v.t = "nan" -> "nan"
      [] OTHER -> "[]"

----------------------------------------------------------------------------
(* Counting *)

RECURSIVE SumCounts(_)
SumCounts(rows) ==
    IF rows = <<>> THEN 0 ELSE rows[1].count + SumCounts(Tail(rows))

\* index of the first entry of counts whose key is == v, 0 if none
RECURSIVE FindKey(_, _, _)
FindKey(counts, v, i) ==
    IF i > Len(counts) THEN 0
    ELSE IF PyEq(counts[i].key, v) THEN i
    ELSE FindKey(counts, v, i + 1)

\* the dict a Counter builds: one entry per distinct key, in the order of
\* first occurrence
RECURSIVE CountInto(_, _)
CountInto(values, acc) ==
    IF values = <<>> THEN acc
    ELSE LET v == Head(values)
             i == FindKey(acc, v, 1)
         IN CountInto(Tail(values),
                IF i = 0 THEN Append(acc, [key |-> v, count |-> 1])
                ELSE [acc EXCEPT ![i].count = @ + 1])

Counter(values) == CountInto(values, <<>>)

\* index of the first entry of counts whose key is the value v (NaN groups
\* with NaN), 0 if none
RECURSIVE FindValue(_, _, _)
FindValue(counts, v, i) ==
    IF i > Len(counts) THEN 0
    ELSE IF counts[i].key = v THEN i
    ELSE FindValue(counts, v, i + 1)

RECURSIVE GroupInto(_, _)
GroupInto(values, acc) ==
    IF values = <<>> THEN acc
    ELSE LET v == Head(values)
             i == FindValue(acc, v, 1)
         IN GroupInto(Tail(values),
                IF i = 0 THEN Append(acc, [key |-> v, count |-> 1])
                ELSE [acc EXCEPT ![i].count = @ + 1])

\* position at which a stable descending sort places an entry of count c
RECURSIVE InsertPos(_, _, _)
InsertPos(sorted, c, i) ==
    IF i > Len(sorted) THEN i
    ELSE IF sorted[i].count < c THEN i
    ELSE InsertPos(sorted, c, i + 1)

InsertAt(s, i, e) == SubSeq(s, 1, i - 1) \o <<e>> \o SubSeq(s, i, Len(s))

RECURSIVE SortDesc(_, _)
SortDesc(items, acc) ==
    IF items = <<>> THEN acc
    ELSE SortDesc(Tail(items),
                  InsertAt(acc, InsertPos(acc, Head(items).count, 1), Head(items)))

MostCommonUnsorted(counts) == counts

\* Counter.most_common(): sorted(items, key=count, reverse=True), which is
\* stable
MostCommon(counts) == SortDesc(counts, <<>>)

\* Series.value_counts(dropna=False): NaN kept as a value, most frequent
\* first
ValueCounts(values) == SortDesc(GroupInto(values, <<>>), <<>>)

----------------------------------------------------------------------------
(* Percent *)

\* num / den rounded to the nearest integer, ties to even: what a fixed
\* point format does to the quotient
RoundDiv(num, den) ==
    LET q == num \div den
        r == num % den
    IN IF 2 * r > den THEN q + 1
       ELSE IF 2 * r < den THEN q
       ELSE IF q % 2 = 0 THEN q ELSE q + 1

PercentTruncated(count, total) ==
    IF total > 0 THEN (100000 * count) \div total ELSE 0

\* f"{count / total * 100.0:.3f}", in thousandths. A tie needs 64 | total,
\* so below 64 records the float quotient never sits on one.
Percent(count, total) ==
    IF total > 0 THEN RoundDiv(100000 * count, total) ELSE 0

\* the rows the writer loop puts after the header, each a function from the
\* column's name to its cell
SummaryRows(field, counts, total) ==
    [i \in 1..Len(counts) |->
        (field :> CsvText(counts[i].key))
        @@ ("count" :> counts[i].count)
        @@ ("percent" :> Percent(counts[i].count, total))]

\* the file written: header [field, "count", "percent"], then the rows
SummaryTable(field, counts, total) ==
    [kind |-> "csv", header |-> <<field, "count", "percent">>,
     rows |-> SummaryRows(field, counts, total)]

----------------------------------------------------------------------------
(* Sources *)

\* a JSON record that is an object with the given members
Obj(kv) == [map |-> TRUE, kv |-> kv]
\* a JSON record that is not an object (a number, a string, a list)
NotObj == [map |-> FALSE, kv |-> <<>>]

JsonFile(isList, recs) ==
    [fmt |-> "json", stem |-> "src", isList |-> isList, columns |-> <<>>,
     recs |-> recs]

\* a CSV file: its header and its records, each a function column -> cell text
CsvFile(columns, recs) ==
    [fmt |-> "csv", stem |-> "src", isList |-> TRUE, columns |-> columns,
     recs |-> recs]

InSeq(x, s) == \E i \in 1..Len(s) : s[i] = x

\* cell texts read_csv takes for a missing value
NaStrings == {"", "NA", "nan", "NaN", "null", "None"}

IsIntLiteral(c) == \E n \in 0..MaxInt : ToStr(n) = c
ParseInt(c) == CHOOSE n \in 0..MaxInt : ToStr(n) = c

\* df[column] after read_csv's type inference: int64 when every cell is an
\* integer, float64 when integers and missing cells mix (or all are
\* missing), else object: strings with NaN for the missing cells
ReadColumn(recs, column) ==
    LET cells == [i \in 1..Len(recs) |-> recs[i][column]]
        present == {i \in 1..Len(cells) : cells[i] \notin NaStrings}
        numeric == \A i \in present : IsIntLiteral(cells[i])
        whole == present = 1..Len(cells)
    IN [i \in 1..Len(cells) |->
          IF i \notin present THEN PyNaN
          ELSE IF ~numeric THEN PyStr(cells[i])
          ELSE IF whole THEN PyInt(ParseInt(cells[i]))
          ELSE PyFloat(ParseInt(cells[i]))]

ExtractValuesDictOnly(recs, key) ==
    LET RECURSIVE Keep(_)
        Keep(s) == IF s = <<>> THEN <<>>
                   ELSE IF Head(s).map
                        THEN <<IF key \in DOMAIN Head(s).kv
                               THEN Head(s).kv[key] ELSE PyNone>>
                             \o Keep(Tail(s))
                        ELSE Keep(Tail(s))
    IN Keep(recs)

ExtractValuesSkipping(recs, key) ==
    LET RECURSIVE Keep(_)
        Keep(s) == IF s = <<>> THEN <<>>
                   ELSE IF Head(s).map /\ key \in DOMAIN Head(s).kv
                        THEN <<Head(s).kv[key]>> \o Keep(Tail(s))
                        ELSE Keep(Tail(s))
    IN Keep(recs)

\* the loop over data: rec.get(key) for a dict, None for anything else
ExtractValues(recs, key) ==
    [i \in 1..Len(recs) |->
        IF recs[i].map
        THEN IF key \in DOMAIN recs[i].kv THEN recs[i].kv[key] ELSE PyNone
        ELSE PyNone]

----------------------------------------------------------------------------
(* Paths *)

\* an optional name that was not given
NoName == <<>>

\* Path.with_suffix: the last suffix replaced, or the suffix added to a name
\* that has none
WithSuffix(name, suffix) ==
    (IF Len(name) > 1 THEN SubSeq(name, 1, Len(name) - 1) ELSE name) \o suffix

Suffix(name) == IF Len(name) > 1 THEN name[Len(name)] ELSE ""

\* f"{stem}_{field}_distribution.csv"
DefaultOutputName(stem, field) ==
    <<stem \o "_" \o field \o "_distribution", "csv">>

\* formats savefig derives from a file name's suffix
ImageFormats == {"png", "pdf", "svg", "jpg"}

OpenAppend(fs, path, content) ==
    IF path \in DOMAIN fs /\ fs[path].kind = "csv"
    THEN (path :> [content EXCEPT !.rows = fs[path].rows \o @]) @@ fs
    ELSE (path :> content) @@ fs

\* open(path, "w") and the writes that follow: the file holds content alone
OpenWrite(fs, path, content) == (path :> content) @@ fs

----------------------------------------------------------------------------
(* 4.1 The aggregators *)

\* the return: out_dir made, the table written at path; counts is the local
\* of that name, in the order its entries were written
Returned(path, fs, counts) ==
    [err |-> "none", dirExists |-> TRUE, files |-> fs, path |-> path,
     counts |-> counts]

RaisedAfterMkdir(e, dirE, fs) ==
    [err |-> e, dirExists |-> TRUE, files |-> fs, path |-> NoName,
     counts |-> <<>>]

\* an exception raised ahead of out_dir.mkdir and of the open
Raised(e, dirE, fs) ==
    [err |-> e, dirExists |-> dirE, files |-> fs, path |-> NoName,
     counts |-> <<>>]

ComputeColumnDistribution(inp, column, output_name, dirE, fs) ==
    IF ~InSeq(column, inp.columns)
    THEN Raised("FieldNotFound", dirE, fs)
    ELSE LET out_path == IF output_name = NoName
                         THEN DefaultOutputName(inp.stem, column)
                         ELSE output_name
             counts == ValueCounts(ReadColumn(inp.recs, column))
             total == SumCounts(counts)
         IN Returned(out_path,
                OpenWrite(fs, out_path, SummaryTable(column, counts, total)),
                counts)

ComputeKeyDistribution(inp, key, output_name, dirE, fs) ==
    IF ~inp.isList
    THEN Raised("MalformedSource", dirE, fs)
    ELSE LET values == ExtractValues(inp.recs, key)
         IN IF \E i \in 1..Len(values) : ~Hashable(values[i])
            THEN Raised("TypeError", dirE, fs)
            ELSE LET counts == Counter(values)
                     total == SumCounts(counts)
                     out_path == IF output_name = NoName
                                 THEN DefaultOutputName(inp.stem, key)
                                 ELSE output_name
                 IN Returned(out_path,
                        OpenWrite(fs, out_path,
                            SummaryTable(key, MostCommon(counts), total)),
                        MostCommon(counts))

----------------------------------------------------------------------------
(* 4.2 The bar chart renderer *)

PlotRaised(e, fs) == [err |-> e, files |-> fs, path |-> NoName]

\* df[column].astype(str) of the table read back with read_csv
Labels(rows, column) ==
    IF column \in {"count", "percent"}
    THEN [i \in 1..Len(rows) |-> ToStr(rows[i][column])]
    ELSE LET col == ReadColumn(rows, column)
         IN [i \in 1..Len(col) |-> CsvText(col[i])]

\* plt.savefig(path): the format comes from the suffix; the file is replaced
SaveFig(fs, path, image) ==
    IF Suffix(path) \notin ImageFormats
    THEN PlotRaised("UnsupportedFormat", fs)
    ELSE [err |-> "none", files |-> OpenWrite(fs, path, image), path |-> path]

ValidateSummaryNoCount(cols, value_column) ==
    IF Len(cols) < 2 THEN "MissingRequiredColumn"
    ELSE IF ~InSeq(IF value_column = "" THEN cols[1] ELSE value_column, cols)
         THEN "MissingRequiredColumn"
    ELSE "none"

\* the three checks ahead of the plot, each a ValueError; "" is the
\* value_column that was not given
ValidateSummary(cols, value_column) ==
    IF Len(cols) < 2 THEN "MissingRequiredColumn"
    ELSE IF ~InSeq(IF value_column = "" THEN cols[1] ELSE value_column, cols)
         THEN "MissingRequiredColumn"
    ELSE IF ~InSeq("count", cols) THEN "MissingRequiredColumn"
    ELSE "none"

PlotDistribution(summary_csv, value_column, out_png, fs) ==
    IF summary_csv \notin DOMAIN fs THEN PlotRaised("FileNotFound", fs)
    ELSE IF fs[summary_csv].kind # "csv" THEN PlotRaised("DecodeError", fs)
    ELSE LET df == fs[summary_csv]
             cols == df.header
             invalid == ValidateSummary(cols, value_column)
             vc == IF value_column = "" THEN cols[1] ELSE value_column
             path == IF out_png = NoName
                     THEN WithSuffix(summary_csv, <<"png">>)
                     ELSE out_png
             x == Labels(df.rows, vc)
             bars == [i \in 1..Len(df.rows) |->
                        [label |-> x[i], count |-> df.rows[i]["count"],
                         text |-> ToStr(df.rows[i]["count"])]]
         IN IF invalid # "none" THEN PlotRaised(invalid, fs)
            ELSE SaveFig(fs, path,
                    [kind |-> "bar", header |-> <<vc, "count">>, rows |-> bars])

----------------------------------------------------------------------------
(* 4.3 The pie chart renderer, inline in compute_and_plot_distribution *)

\* f"{name} ({cnt / total * 100:.1f}%)", the percent in tenths
LegendPercent(cnt, total) == RoundDiv(1000 * cnt, total)

PlotPie(summary_csv, field, pie_path, fs) ==
    IF summary_csv \notin DOMAIN fs THEN PlotRaised("FileNotFound", fs)
    ELSE IF fs[summary_csv].kind # "csv" THEN PlotRaised("DecodeError", fs)
    ELSE LET df == fs[summary_csv]
             x == Labels(df.rows, field)
             total == IF Len(df.rows) > 0 THEN SumCounts(df.rows) ELSE 0
             wedges == [i \in 1..Len(df.rows) |->
                          [label |-> x[i], count |-> df.rows[i]["count"],
                           text |-> IF total > 0
                                    THEN ToStr(LegendPercent(df.rows[i]["count"], total))
                                    ELSE ""]]
         IN SaveFig(fs, pie_path,
                [kind |-> "pie", header |-> <<field, "count">>, rows |-> wedges])

----------------------------------------------------------------------------
(* State *)

NoInput == JsonFile(TRUE, <<>>)
NoTable == [kind |-> "none", header |-> <<>>, rows |-> <<>>]

\* no compute_and_plot_distribution call is in progress
NoCall ==
    [field |-> "", summary_csv |-> NoName, plot_name |-> NoName,
     pie_name |-> NoName, bar_png |-> NoName, table |-> NoTable]

\* what a call left behind: its arguments, the error it raised or "none",
\* the paths it returned, the aggregator's counts, and whether the path it
\* wrote held something else before
Outcome(op, err, inp, field, path, paths, counts, replaced) ==
    [op |-> op, err |-> err, input |-> inp, field |-> field, path |-> path,
     paths |-> paths, counts |-> counts, replaced |-> replaced]

Replaced(r) ==
    r.err = "none" /\ r.path \in DOMAIN files /\ files[r.path] # r.files[r.path]

\* field names the calls select; "j" is a key no JSON record carries
Fields == {"k", "j"}
\* the field the combined calls select
PipeFields == {"k"}
OutputNames == {NoName, <<"dist", "png">>}
PlotNames == {NoName, <<"bar", "png">>}
PieNames == {NoName, <<"bar", "png">>}

\* another JSON file on disk, whose top level is an object
ObjectJson == JsonFile(FALSE, <<>>)

JsonInputs == IF source.fmt = "json" THEN {source, ObjectJson} ELSE {}
CsvInputs == IF source.fmt = "csv" THEN {source} ELSE {}

Aggregate(inp, field, output_name) ==
    IF inp.fmt = "csv"
    THEN ComputeColumnDistribution(inp, field, output_name, dirExists, files)
    ELSE ComputeKeyDistribution(inp, field, output_name, dirExists, files)

----------------------------------------------------------------------------
(* Calls *)

\* compute_column_distribution(csv_path, column, out_dir, output_name)
CallComputeColumnDistribution(inp, column, output_name) ==
    /\ pc = "idle"
    /\ inp.fmt = "csv"
    /\ LET r == ComputeColumnDistribution(inp, column, output_name,
                                          dirExists, files)
       IN /\ dirExists' = r.dirExists
          /\ files' = r.files
          /\ last' = Outcome("compute", r.err, inp, column, r.path, <<>>,
                             r.counts, Replaced(r))
    /\ UNCHANGED <<source, pc, cur>>

\* compute_key_distribution(json_path, key, out_dir, output_name)
CallComputeKeyDistribution(inp, key, output_name) ==
    /\ pc = "idle"
    /\ inp.fmt = "json"
    /\ LET r == ComputeKeyDistribution(inp, key, output_name,
                                       dirExists, files)
       IN /\ dirExists' = r.dirExists
          /\ files' = r.files
          /\ last' = Outcome("compute", r.err, inp, key, r.path, <<>>,
                             r.counts, Replaced(r))
    /\ UNCHANGED <<source, pc, cur>>

\* plot_distribution(summary_csv, value_column, out_png)
CallPlotDistribution(summary_csv, value_column, out_png) ==
    /\ pc = "idle"
    /\ LET r == PlotDistribution(summary_csv, value_column, out_png, files)
       IN /\ files' = r.files
          /\ last' = Outcome("plot", r.err, NoInput, value_column,
                             summary_csv, <<r.path>>, <<>>, FALSE)
    /\ UNCHANGED <<source, dirExists, pc, cur>>

\* compute_and_plot_distribution, first statement: the aggregator
CombinedCompute(inp, field, output_name, plot_name, pie_name) ==
    /\ pc = "idle"
    /\ LET r == Aggregate(inp, field, output_name)
       IN /\ dirExists' = r.dirExists
          /\ files' = r.files
          /\ last' = Outcome("compute", r.err, inp, field, r.path, <<>>,
                             r.counts, Replaced(r))
          /\ IF r.err = "none"
             THEN /\ pc' = "bar"
                  /\ cur' = [field |-> field, summary_csv |-> r.path,
                             plot_name |-> plot_name, pie_name |-> pie_name,
                             bar_png |-> NoName, table |-> r.files[r.path]]
             ELSE UNCHANGED <<pc, cur>>
    /\ UNCHANGED source

\* compute_and_plot_distribution, second statement: the bar chart
CombinedBar ==
    /\ pc = "bar"
    /\ LET r == PlotDistribution(cur.summary_csv, cur.field, cur.plot_name,
                                 files)
       IN /\ files' = r.files
          /\ last' = Outcome("plot", r.err, NoInput, cur.field,
                             cur.summary_csv, <<r.path>>, <<>>, FALSE)
          /\ IF r.err = "none"
             THEN /\ pc' = "pie"
                  /\ cur' = [cur EXCEPT !.bar_png = r.path]
             ELSE /\ pc' = "idle"
                  /\ cur' = NoCall
    /\ UNCHANGED <<source, dirExists>>

\* compute_and_plot_distribution, the rest: the pie chart and the return
CombinedPie ==
    /\ pc = "pie"
    /\ LET pie_path == IF cur.pie_name = NoName
                       THEN WithSuffix(cur.summary_csv, <<"pie", "png">>)
                       ELSE cur.pie_name
           r == PlotPie(cur.summary_csv, cur.field, pie_path, files)
       IN /\ files' = r.files
          /\ last' = Outcome("combined", r.err, NoInput, cur.field,
                             cur.summary_csv,
                             IF r.err = "none"
                             THEN <<cur.summary_csv, cur.bar_png, pie_path>>
                             ELSE <<>>,
                             <<>>, FALSE)
    /\ pc' = "idle"
    /\ cur' = NoCall
    /\ UNCHANGED <<source, dirExists>>

----------------------------------------------------------------------------
(* Inputs *)

SeqsUpTo(S, n) == UNION {[1..m -> S] : m \in 0..n}

\* the records a JSON list may hold, the key "k" carrying each kind of value
JsonRecords ==
    {NotObj, Obj(<<>>)} \cup
    {Obj("k" :> v) : v \in {PyNone, PyStr(""), PyStr("a"), PyStr("b"),
                            PyStr("1"), PyInt(1), PyTrue, PyList}}

\* those among them that are strings, nulls, absent keys and non-maps
PlainJsonRecords ==
    {NotObj, Obj(<<>>)} \cup
    {Obj("k" :> v) : v \in {PyNone, PyStr(""), PyStr("a"), PyStr("b")}}

CsvCells == {"", "NA", "a", "b", "1", "2"}

\* CSV records with the cells cs in column "k", under header columns
CsvRecords(columns, cs) ==
    [i \in 1..Len(cs) |->
        [c \in {columns[j] : j \in 1..Len(columns)} |->
            IF c = "k" THEN cs[i] ELSE "x"]]

CsvHeaders == {<<"k">>, <<"k", "j">>}

\* the values 1, 2, ... in runs: a new value starts after each position of
\* cuts
Runs(len, cuts) ==
    [p \in 1..len |-> 1 + Cardinality({c \in cuts : c < p})]

\* the length of the run of value v
RunLength(run, v) == Cardinality({p \in 1..Len(run) : run[p] = v})

\* every multiset of counts once: the runs in order of falling length
RunSources ==
    UNION {{run \in {Runs(len, cuts) : cuts \in SUBSET (1..(len - 1))} :
               \A v \in 1..(run[len] - 1) :
                   RunLength(run, v) >= RunLength(run, v + 1)} :
              len \in 1..MaxDistinct}

AggSources ==
    {JsonFile(TRUE, recs) : recs \in SeqsUpTo(JsonRecords, MaxRichLen)}
    \cup {JsonFile(TRUE, recs) : recs \in SeqsUpTo(PlainJsonRecords, MaxLen)}
    \cup {CsvFile(h, CsvRecords(h, cs)) :
              h \in CsvHeaders, cs \in SeqsUpTo(CsvCells, MaxRichLen)}
    \cup {JsonFile(TRUE, [i \in 1..Len(r) |-> Obj("k" :> PyInt(r[i]))]) :
              r \in RunSources}
    \cup {CsvFile(<<"k">>,
                  CsvRecords(<<"k">>, [i \in 1..Len(r) |-> ToStr(r[i])])) :
              r \in RunSources}

PipeJsonRecords ==
    {NotObj, Obj(<<>>), Obj("k" :> PyNone), Obj("k" :> PyStr("")),
     Obj("k" :> PyStr("a"))}

PipeCsvCells == {"", "a", "1"}

PipeSources ==
    {JsonFile(TRUE, recs) : recs \in SeqsUpTo(PipeJsonRecords, MaxPipeLen)}
    \cup {CsvFile(h, CsvRecords(h, cs)) :
              h \in CsvHeaders, cs \in SeqsUpTo(PipeCsvCells, MaxPipeLen)}

----------------------------------------------------------------------------
(* Specifications *)

InitWith(sources) ==
    /\ source \in sources
    /\ dirExists = FALSE
    /\ files = <<>>
    /\ pc = "idle"
    /\ cur = NoCall
    /\ last = Outcome("none", "none", NoInput, "", NoName, <<>>, <<>>, FALSE)

\* compute_and_plot_distribution, called again and again on one source
Init == InitWith(PipeSources)

Next ==
    \/ \E inp \in CsvInputs \cup JsonInputs, field \in PipeFields,
          output_name \in OutputNames, plot_name \in PlotNames,
          pie_name \in PieNames :
          CombinedCompute(inp, field, output_name, plot_name, pie_name)
    \/ CombinedBar
    \/ CombinedPie

Spec == Init /\ [][Next]_vars

\* the aggregators called again and again, with any field and output name
NextRuns ==
    \/ \E inp \in CsvInputs, column \in Fields, output_name \in OutputNames :
          CallComputeColumnDistribution(inp, column, output_name)
    \/ \E inp \in JsonInputs, key \in Fields, output_name \in OutputNames :
          CallComputeKeyDistribution(inp, key, output_name)

SpecRuns == Init /\ [][NextRuns]_vars

\* the aggregators alone, on every source up to the bounds
InitAgg == InitWith(AggSources)

NextAgg ==
    \/ \E column \in Fields :
          CallComputeColumnDistribution(source, column, NoName)
    \/ \E key \in Fields :
          CallComputeKeyDistribution(source, key, NoName)

SpecAgg == InitAgg /\ [][NextAgg]_vars

\* plot_distribution alone, on summary tables of every header
PlotHeaders ==
    {<<"count">>, <<"k">>, <<"k", "percent">>, <<"count", "percent">>,
     <<"k", "count">>, <<"k", "count", "percent">>,
     <<"j", "count", "percent">>}

PlotRows(header) ==
    {[c \in {header[j] : j \in 1..Len(header)} |->
         IF c = "count" THEN n ELSE IF c = "percent" THEN 50000 ELSE v] :
        v \in {"a", "", "1"}, n \in {1, 2}}

PlotTables ==
    UNION {{[kind |-> "csv", header |-> h, rows |-> rows] :
               rows \in SeqsUpTo(PlotRows(h), MaxPlotRows)} :
              h \in PlotHeaders}

InitPlot ==
    /\ source = NoInput
    /\ dirExists = TRUE
    /\ files \in {<<"summary", "csv">> :> t : t \in PlotTables}
    /\ pc = "idle"
    /\ cur = NoCall
    /\ last = Outcome("none", "none", NoInput, "", NoName, <<>>, <<>>, FALSE)

NextPlot ==
    \E summary_csv \in DOMAIN files \cup {<<"missing", "csv">>},
       value_column \in {"", "k", "count"},
       out_png \in {NoName, <<"bar", "png">>, <<"bar", "csv">>} :
       CallPlotDistribution(summary_csv, value_column, out_png)

SpecPlot == InitPlot /\ [][NextPlot]_vars

----------------------------------------------------------------------------
(* Properties *)

Abs(n) == IF n < 0 THEN -n ELSE n

\* an aggregator call has just returned
AggOk == last.op = "compute" /\ last.err = "none"

\* the summary table that call wrote, and the text of its value column
Written == files[last.path]
WrittenText(i) == Written.rows[i][last.field]

\* the field value of record i of the source, as the aggregator reads it
FieldValue(inp, field, i) ==
    IF inp.fmt = "csv" THEN ReadColumn(inp.recs, field)[i]
    ELSE IF inp.recs[i].map /\ field \in DOMAIN inp.recs[i].kv
         THEN inp.recs[i].kv[field]
         ELSE PyNone

\* the entries of the call's counts that stand for value v
EntriesOf(inp, v) ==
    {j \in 1..Len(last.counts) :
        IF inp.fmt = "csv" THEN last.counts[j].key = v
        ELSE PyEq(last.counts[j].key, v)}

RECURSIVE SumPercent(_)
SumPercent(rows) ==
    IF rows = <<>> THEN 0 ELSE rows[1]["percent"] + SumPercent(Tail(rows))

(* C1: for every non-empty source, on the CSV and on the JSON path, the    *)
(* counts of the written summary table sum to the number of input records, *)
(* and every record (null, absent key and non-map included) is counted in  *)
(* exactly one row.                                                        *)
C1_CountsSumToRecords ==
    (AggOk /\ Len(last.input.recs) > 0) =>
        /\ SumCounts(Written.rows) = Len(last.input.recs)
        /\ Len(Written.rows) = Len(last.counts)
        /\ \A i \in 1..Len(last.input.recs) :
              Cardinality(EntriesOf(last.input,
                                    FieldValue(last.input, last.field, i))) = 1

C1_Witness ==
    /\ AggOk
    /\ last.input.fmt = "json"
    /\ last.field = "k"
    /\ Len(last.input.recs) = 4
    /\ \E i \in 1..4 : ~last.input.recs[i].map
    /\ \E i \in 1..4 : last.input.recs[i] = Obj(<<>>)
    /\ Len(Written.rows) = 2
    /\ SumCounts(Written.rows) = 4

(* C2, as claimed: for every non-empty source, with any number of distinct *)
(* values, the percents of the written summary table sum to 100.000 within *)
(* 0.003.                                                                  *)
C2_Original ==
    (AggOk /\ Len(last.input.recs) > 0) =>
        Abs(SumPercent(Written.rows) - 100000) <= 3

(* C2, amended: for every non-empty source the percents of the written     *)
(* summary table sum to 100.000 within 0.0005 per row of the table.        *)
C2_PercentSumWithinHalfUnitPerRow ==
    (AggOk /\ Len(last.input.recs) > 0) =>
        2 * Abs(SumPercent(Written.rows) - 100000) <= Len(Written.rows)

C2_Witness ==
    /\ AggOk
    /\ Len(Written.rows) = 12
    /\ SumPercent(Written.rows) = 99996

(* C3: when the aggregator fails with FieldNotFound (CSV column absent) or *)
(* MalformedSource (JSON top level not a list) nothing is written: the     *)
(* output directory is not created and no file is created or modified.     *)
C3_AbortBeforeWrite ==
    [][last'.err \in {"FieldNotFound", "MalformedSource"} =>
         (dirExists' = dirExists /\ files' = files)]_vars

C3_Witness ==
    /\ last.op = "compute"
    /\ last.err = "FieldNotFound"
    /\ last.input.fmt = "csv"
    /\ ~dirExists
    /\ files = <<>>

\* the records of a JSON source that count as null for key
NullRecords(inp, key) ==
    {i \in 1..Len(inp.recs) :
        \/ ~inp.recs[i].map
        \/ key \notin DOMAIN inp.recs[i].kv
        \/ inp.recs[i].kv[key] = PyNone}

(* C4: on the JSON path a record that lacks the key or is not a map raises *)
(* no error and adds one observation to the single null bucket: the null   *)
(* row's count is the number of records that are non-maps, lack the key or *)
(* carry null for it.                                                      *)
C4_NullBucket ==
    (last.op = "compute" /\ last.input.fmt = "json" /\ last.input.isList) =>
        LET inp == last.input
            n == Cardinality(NullRecords(inp, last.field))
            unhashable == \E i \in 1..Len(inp.recs) :
                             /\ i \notin NullRecords(inp, last.field)
                             /\ ~Hashable(inp.recs[i].kv[last.field])
            nullRows == {j \in 1..Len(last.counts) : last.counts[j].key = PyNone}
        IN /\ ~unhashable => last.err = "none"
           /\ last.err = "none" =>
                 IF n = 0 THEN nullRows = {}
                 ELSE \E j \in 1..Len(last.counts) :
                         /\ nullRows = {j}
                         /\ last.counts[j].count = n
                         /\ Written.rows[j]["count"] = n
                         /\ WrittenText(j) = ""

C4_Witness ==
    /\ AggOk
    /\ last.input.fmt = "json"
    /\ last.field = "k"
    /\ last.input.recs = <<NotObj, Obj(<<>>), Obj("k" :> PyNone),
                           Obj("k" :> PyStr("a"))>>
    /\ Written.rows[1]["count"] = 3
    /\ WrittenText(1) = ""

\* the place of the first record whose value is == v
FirstIndex(inp, field, v) ==
    CHOOSE i \in 1..Len(inp.recs) :
        /\ PyEq(FieldValue(inp, field, i), v)
        /\ \A h \in 1..(i - 1) : ~PyEq(FieldValue(inp, field, h), v)

(* C5: on the JSON path the rows are ordered most-common-first: each row's *)
(* count is at least the next row's, and rows of equal count keep the      *)
(* order in which their values first occur in the input.                   *)
C5_MostCommonFirst ==
    (AggOk /\ last.input.fmt = "json") =>
        /\ Len(Written.rows) = Len(last.counts)
        /\ \A i \in 1..Len(Written.rows) :
              Written.rows[i]["count"] = last.counts[i].count
        /\ \A i \in 1..(Len(Written.rows) - 1) :
              /\ Written.rows[i]["count"] >= Written.rows[i + 1]["count"]
              /\ Written.rows[i]["count"] = Written.rows[i + 1]["count"] =>
                    FirstIndex(last.input, last.field, last.counts[i].key)
                    < FirstIndex(last.input, last.field, last.counts[i + 1].key)

C5_Witness ==
    /\ AggOk
    /\ last.field = "k"
    /\ last.input.fmt = "json"
    /\ last.input.recs = <<Obj("k" :> PyStr("a")), Obj("k" :> PyStr("a")),
                           Obj(<<>>), Obj("k" :> PyStr("b"))>>
    /\ Len(Written.rows) = 3
    /\ <<WrittenText(1), WrittenText(2), WrittenText(3)>> = <<"a", "", "b">>
    /\ <<Written.rows[1]["count"], Written.rows[2]["count"],
         Written.rows[3]["count"]>> = <<2, 1, 1>>
    /\ Written.rows[1]["percent"] = 50000

(* C6: the summary table has one row per distinct field value, values      *)
(* compared by their textual form: no two rows carry the same text, and    *)
(* two records fall in the same row exactly if their values have the same  *)
(* textual form.                                                           *)
C6_OneRowPerTextualValue ==
    AggOk =>
        /\ \A i, j \in 1..Len(Written.rows) :
              i # j => WrittenText(i) # WrittenText(j)
        /\ \A p, q \in 1..Len(last.input.recs) :
              LET vp == FieldValue(last.input, last.field, p)
                  vq == FieldValue(last.input, last.field, q)
              IN (EntriesOf(last.input, vp) = EntriesOf(last.input, vq))
                 <=> (CsvText(vp) = CsvText(vq))

\* the summary rows grouped again by the text of the value column, counts
\* summed, percent recomputed from the summed counts
RECURSIVE RegroupInto(_, _, _)
RegroupInto(rows, field, acc) ==
    IF rows = <<>> THEN acc
    ELSE LET r == Head(rows)
             hit == {j \in 1..Len(acc) : acc[j].key = r[field]}
         IN RegroupInto(Tail(rows), field,
                IF hit = {}
                THEN Append(acc, [key |-> r[field], count |-> r["count"]])
                ELSE [j \in 1..Len(acc) |->
                        IF j \in hit
                        THEN [acc[j] EXCEPT !.count = @ + r["count"]]
                        ELSE acc[j]])

ReAggregate(rows, field) ==
    LET groups == RegroupInto(rows, field, <<>>)
        total == SumCounts(groups)
    IN [j \in 1..Len(groups) |->
          (field :> groups[j].key)
          @@ ("count" :> groups[j].count)
          @@ ("percent" :> Percent(groups[j].count, total))]

RowSet(rows) == {rows[i] : i \in 1..Len(rows)}

(* C7: round trip: re-reading a written summary table and re-aggregating   *)
(* its count column by its value column yields the same rows.              *)
C7_RoundTrip ==
    AggOk =>
        LET again == ReAggregate(Written.rows, last.field)
        IN /\ Len(again) = Len(Written.rows)
           /\ RowSet(again) = RowSet(Written.rows)

\* the column plot_distribution takes as the value column
Designated(cols, value_column) ==
    IF value_column = "" THEN cols[1] ELSE value_column

LacksColumn(cols, value_column) ==
    \/ ~InSeq("count", cols)
    \/ ~InSeq(Designated(cols, value_column), cols)

\* this step is a plot_distribution call that read a summary table
PlotRead ==
    /\ last'.op = "plot"
    /\ last'.path \in DOMAIN files
    /\ files[last'.path].kind = "csv"

(* C8, as claimed: plot_distribution raises MissingRequiredColumn whenever *)
(* the table lacks "count" or the designated value column, writing no      *)
(* image, and does not raise it when both are present.                     *)
C8_Original ==
    [][PlotRead =>
         LET cols == files[last'.path].header
         IN /\ LacksColumn(cols, last'.field) =>
                 (last'.err = "MissingRequiredColumn" /\ files' = files)
            /\ ~LacksColumn(cols, last'.field) =>
                 last'.err # "MissingRequiredColumn"]_vars

(* C8, amended: plot_distribution raises MissingRequiredColumn whenever    *)
(* the table lacks "count" or the designated value column, writing no      *)
(* image, and does not raise it when both are present and the table has at *)
(* least two columns.                                                      *)
C8_MissingRequiredColumn ==
    [][PlotRead =>
         LET cols == files[last'.path].header
         IN /\ LacksColumn(cols, last'.field) =>
                 (last'.err = "MissingRequiredColumn" /\ files' = files)
            /\ (~LacksColumn(cols, last'.field) /\ Len(cols) >= 2) =>
                 last'.err # "MissingRequiredColumn"]_vars

C8_Witness ==
    /\ last.op = "plot"
    /\ last.err = "MissingRequiredColumn"
    /\ last.field = "k"
    /\ last.path = <<"summary", "csv">>
    /\ files[last.path].header = <<"k", "percent">>
    /\ DOMAIN files = {<<"summary", "csv">>}

(* C9: compute_and_plot_distribution runs the aggregator, the bar renderer *)
(* and the pie renderer in that order on the same summary table: for any   *)
(* output_name, plot_name and pie_name the summary file is not modified    *)
(* between its write and the pie renderer's read, and the three returned   *)
(* paths are the summary, bar and pie files written.                       *)
C9_SameSummaryTable ==
    /\ pc \in {"bar", "pie"} =>
          /\ cur.summary_csv \in DOMAIN files
          /\ files[cur.summary_csv] = cur.table
    /\ (last.op = "combined" /\ last.err = "none") =>
          /\ files[last.paths[1]].kind = "csv"
          /\ files[last.paths[2]].kind = "bar"
          /\ files[last.paths[3]].kind = "pie"

\* the table an aggregator call writes into an empty, absent directory
FreshTable(inp, field) ==
    LET r == IF inp.fmt = "csv"
             THEN ComputeColumnDistribution(inp, field, NoName, FALSE, <<>>)
             ELSE ComputeKeyDistribution(inp, field, NoName, FALSE, <<>>)
    IN r.files[r.path]

\* the call's input passes the aggregator's checks
ValidInput(inp, field) ==
    IF inp.fmt = "csv" THEN InSeq(field, inp.columns)
    ELSE /\ inp.isList
         /\ \A i \in 1..Len(inp.recs) :
               i \in NullRecords(inp, field) \/ Hashable(inp.recs[i].kv[field])

(* C10: the aggregator overwrites and never merges: after a run returns,   *)
(* the summary file holds the table of that run alone and every other file *)
(* is as it was; the directory exists afterwards whether or not it existed *)
(* before; a run that fails leaves every file unchanged.                   *)
C10_OverwriteNeverMerge ==
    [][last'.op = "compute" =>
         /\ (last'.err = "none") <=> ValidInput(last'.input, last'.field)
         /\ last'.err = "none" =>
               /\ dirExists'
               /\ files' = (last'.path :> FreshTable(last'.input, last'.field))
                            @@ files
         /\ last'.err # "none" => files' = files]_vars

C10_Witness ==
    /\ AggOk
    /\ last.replaced
    /\ last.path = <<"dist", "png">>
    /\ files[last.path] = FreshTable(last.input, last.field)
    /\ Len(files[last.path].rows) = 1

====
